---- MODULE Spec2Model ----
(***************************************************************************)
(* On-chain identity (keys + claims) and the claim-topics registry of      *)
(* KiiChain/RWA-Protocol.                                                   *)
(*                                                                         *)
(* Every handler is an operator from the store and the call's inputs to a  *)
(* record [res, st, ...]: res is "Ok" or the error kind returned, st the   *)
(* store the call leaves behind (a call that returns an error before its   *)
(* save leaves the store it was given).  The actions apply the handlers    *)
(* to inputs drawn from small sets.                                        *)
(*                                                                         *)
(* Abstractions: SHA-256 and hex are injective (a digest is represented by *)
(* its tagged preimage); the secp256k1 collaborator accepts a signature    *)
(* exactly when it was made over the digest by the holder of the public    *)
(* key, and a key entry's owner address names that public key.             *)
(***************************************************************************)
EXTENDS Integers, Sequences, FiniteSets, TLC

(* ------------------------------ bounds --------------------------------- *)

\* longest key list an identity is allowed to grow to in the model
MaxKeys == 3

(* ------------------------------ values --------------------------------- *)

\* accounts: "o" is the deployer / root identity, "a" another account
Addrs == {"o", "a"}

KeyType == {"ManagementKey", "ExecutionKey", "ClaimSignerKey", "EncryptionKey"}

Key == [owner : Addrs, key_type : KeyType]

\* claim topic codes (Uint128)
Topics == {1, 2}

\* Option<String>: None is <<>>, Some(x) is <<x>>
None == <<>>
Some(x) == <<x>>

\* the (signature, data, uri) byte strings a submitted claim carries
ClaimBodies ==
    { [signature |-> <<"b">>, data |-> <<>>,    uri |-> <<"u">>],
      [signature |-> <<>>,    data |-> <<"b">>, uri |-> <<"u">>] }

\* an id a client may put into the claim it submits
ClientIds == {None, Some(<<"client", <<>>>>)}

\* a claim as submitted by a client
ClaimInputs ==
    { [id |-> i, topic |-> t, issuer |-> iss,
       signature |-> b.signature, data |-> b.data, uri |-> b.uri] :
         i \in ClientIds, t \in Topics, iss \in Addrs, b \in ClaimBodies }

\* an identity record that was never saved
NoIdentity == [exists |-> FALSE, keys |-> <<>>, claims |-> <<>>]

VARIABLES
    OWNER,          \* Item<Addr>: the owner of the identity contract
    IDENTITY,       \* Map<&Addr, Identity>: address -> identity record
    CLAIM_TOPICS    \* registry: the set of topics saved as valid

vars == <<OWNER, IDENTITY, CLAIM_TOPICS>>

(* ----------------------------- sequences -------------------------------- *)

Range(s) == { s[i] : i \in 1..Len(s) }

Min(S) == CHOOSE x \in S : \A y \in S : x <= y

(* ------------------------------ claim codec ----------------------------- *)

\* Uint128::to_string().as_bytes(): the decimal digits, most significant first
Digit(d) == <<"0", "1", "2", "3", "4", "5", "6", "7", "8", "9">>[d + 1]

RECURSIVE to_string(_)
to_string(n) ==
    IF n < 10 THEN <<Digit(n)>> ELSE to_string(n \div 10) \o <<Digit(n % 10)>>

\* Addr::as_bytes(): the bytes of the address string
as_bytes(addr) == <<addr>>

\* Sha256 (and its hex encoding): injective, a digest is its tagged preimage
Sha256(bytes) == <<"sha256", bytes>>

\* a serialization that leaves the signature field out
to_vec_without_signature(claim) ==
    <<claim.id, claim.topic, claim.issuer, <<>>, claim.data, claim.uri>>

\* serde_json::to_vec(claim): every field of the claim as submitted
to_vec(claim) ==
    <<claim.id, claim.topic, claim.issuer, claim.signature, claim.data, claim.uri>>

\* generate_claim_id that keeps an id the claim already carries
generate_claim_id_if_absent(claim) ==
    IF claim.id # None THEN claim
    ELSE [claim EXCEPT !.id =
            Some(Sha256(to_string(claim.topic) \o as_bytes(claim.issuer)
                        \o claim.signature \o claim.data \o claim.uri))]

\* generate_claim_id: hash of the concatenated fields, set as the claim's id
generate_claim_id(claim) ==
    [claim EXCEPT !.id =
        Some(Sha256(to_string(claim.topic) \o as_bytes(claim.issuer)
                    \o claim.signature \o claim.data \o claim.uri))]

(* ------------------------- signature collaborator ----------------------- *)

\* a compact signature made by the holder of `signer` over `msg`
Sign(signer, msg) == [wellformed |-> TRUE, signer |-> signer, msg |-> msg]

\* bytes that do not parse as a signature
Malformed == [wellformed |-> FALSE, signer |-> "", msg |-> <<>>]

\* Api::secp256k1_verify: "Err" for bytes that are no signature, else the verdict
secp256k1_verify(message_hash, signature, public_key) ==
    IF ~signature.wellformed THEN "Err"
    ELSE IF signature.signer = public_key /\ signature.msg = message_hash
         THEN "True" ELSE "False"

\* the issuer_signature values tried with a submitted claim: not a signature,
\* or a signature by either account over the digest of the claim as submitted
\* or over the digest of the claim with an empty signature field
SignatureInputs(claim) ==
    {Malformed}
    \cup { Sign(s, Sha256(to_vec(claim))) : s \in Addrs }
    \cup { Sign(s, Sha256(to_vec([claim EXCEPT !.signature = <<>>]))) : s \in Addrs }

(* ------------------------------ key authority --------------------------- *)

\* IDENTITY.load(storage, addr): the record, or exists = FALSE (NotFound)
load(st, addr) == st[addr]

\* keys.iter().any(|k| k.owner == owner && k.key_type == key_type)
has_key(keys, owner, key_type) ==
    \E i \in 1..Len(keys) : keys[i].owner = owner /\ keys[i].key_type = key_type

\* check_key_authorization(deps, sender, required_key): the sender holds a key
\* of the required type in the key set of the identity the call acts on.  The
\* handlers load and save the identity stored under info.sender, so that is
\* the identity whose key set is consulted; an address with no identity
\* record holds no key.
check_key_authorization(st, sender, required_key) ==
    IF has_key(load(st, sender).keys, sender, required_key)
    THEN "Ok" ELSE "Unauthorized"

(* ------------------------------ key operations -------------------------- *)

\* AddKey that appends without looking for the pair
execute_add_key_unchecked(st, sender, key_owner, key_type) ==
    IF check_key_authorization(st, sender, "ManagementKey") # "Ok"
    THEN [res |-> "Unauthorized", st |-> st]
    ELSE [res |-> "Ok",
          st  |-> [st EXCEPT ![sender].keys =
                     Append(load(st, sender).keys,
                            [owner |-> key_owner, key_type |-> key_type])]]

\* AddKey that takes any key of the same owner for the pair
execute_add_key_by_owner(st, sender, key_owner, key_type) ==
    IF check_key_authorization(st, sender, "ManagementKey") # "Ok"
    THEN [res |-> "Unauthorized", st |-> st]
    ELSE LET identity == load(st, sender) IN
         IF \E i \in 1..Len(identity.keys) : identity.keys[i].owner = key_owner
         THEN [res |-> "KeyAlreadyExists", st |-> st]
         ELSE [res |-> "Ok",
               st  |-> [st EXCEPT ![sender].keys =
                          Append(identity.keys,
                                 [owner |-> key_owner, key_type |-> key_type])]]

\* AddKey{key_owner, key_type}
execute_add_key(st, sender, key_owner, key_type) ==
    IF check_key_authorization(st, sender, "ManagementKey") # "Ok"
    THEN [res |-> "Unauthorized", st |-> st]
    ELSE LET identity == load(st, sender) IN
         IF has_key(identity.keys, key_owner, key_type)
         THEN [res |-> "KeyAlreadyExists", st |-> st]
         ELSE [res |-> "Ok",
               st  |-> [st EXCEPT ![sender].keys =
                          Append(identity.keys,
                                 [owner |-> key_owner, key_type |-> key_type])]]

\* RevokeKey{key_owner, key_type}
execute_remove_key(st, sender, key_owner, key_type) ==
    IF check_key_authorization(st, sender, "ManagementKey") # "Ok"
    THEN [res |-> "Unauthorized", st |-> st]
    ELSE LET identity == load(st, sender)
             keep(k)  == ~(k.owner = key_owner /\ k.key_type = key_type)
         IN  [res |-> "Ok",
              st  |-> [st EXCEPT ![sender].keys = SelectSeq(identity.keys, keep)]]

(* ----------------------------- claim operations ------------------------- *)

\* a lookup that takes the first key of any type
find_first_key(keys) ==
    IF keys = <<>> THEN None ELSE Some(keys[1])

\* keys.iter().find(|k| k.key_type == ClaimSignerKey): Some(first) or None
find_claim_signer_key(keys) ==
    LET at == { i \in 1..Len(keys) : keys[i].key_type = "ClaimSignerKey" }
    IN  IF at = {} THEN None ELSE Some(keys[Min(at)])

\* verify_claim_signature(deps, claim, signature)
verify_claim_signature(st, claim, signature) ==
    LET issuer_identity == load(st, claim.issuer) IN
    IF ~issuer_identity.exists THEN "NotFound"
    ELSE LET claim_signer_key == find_claim_signer_key(issuer_identity.keys) IN
         IF claim_signer_key = None THEN "Unauthorized"
         ELSE LET message_hash == Sha256(to_vec(claim))
                  public_key   == claim_signer_key[1].owner
                  valid == secp256k1_verify(message_hash, signature, public_key)
              IN  IF valid = "True" THEN "Ok" ELSE "InvalidIssuerSignature"

\* a lookup that compares with the claim stored last only
has_claim_id_last(claims, id) ==
    claims # <<>> /\ claims[Len(claims)].id = id

has_claim_id(claims, id) == \E i \in 1..Len(claims) : claims[i].id = id

\* add_claim that puts the new claim in front
add_claim_in_front(st, sender, claim, issuer_signature) ==
    IF check_key_authorization(st, sender, "ManagementKey") # "Ok"
    THEN [res |-> "Unauthorized", st |-> st, claim_id |-> None]
    ELSE LET verified == verify_claim_signature(st, claim, issuer_signature) IN
         IF verified # "Ok"
         THEN [res |-> verified, st |-> st, claim_id |-> None]
         ELSE LET identity == load(st, sender)
                  with_id  == generate_claim_id(claim)
              IN  IF has_claim_id(identity.claims, with_id.id)
                  THEN [res |-> "ClaimAlreadyExists", st |-> st, claim_id |-> None]
                  ELSE [res |-> "Ok",
                        st  |-> [st EXCEPT ![sender].claims =
                                   <<with_id>> \o identity.claims],
                        claim_id |-> with_id.id]

\* add_claim that also lets a holder of a ClaimSignerKey add
add_claim_by_signer(st, sender, claim, issuer_signature) ==
    IF /\ check_key_authorization(st, sender, "ManagementKey") # "Ok"
       /\ check_key_authorization(st, sender, "ClaimSignerKey") # "Ok"
    THEN [res |-> "Unauthorized", st |-> st, claim_id |-> None]
    ELSE LET verified == verify_claim_signature(st, claim, issuer_signature) IN
         IF verified # "Ok"
         THEN [res |-> verified, st |-> st, claim_id |-> None]
         ELSE LET identity == load(st, sender)
                  with_id  == generate_claim_id(claim)
              IN  IF has_claim_id(identity.claims, with_id.id)
                  THEN [res |-> "ClaimAlreadyExists", st |-> st, claim_id |-> None]
                  ELSE [res |-> "Ok",
                        st  |-> [st EXCEPT ![sender].claims =
                                   Append(identity.claims, with_id)],
                        claim_id |-> with_id.id]

\* add_claim that looks for the id before it verifies the signature
add_claim_duplicate_first(st, sender, claim, issuer_signature) ==
    IF check_key_authorization(st, sender, "ManagementKey") # "Ok"
    THEN [res |-> "Unauthorized", st |-> st, claim_id |-> None]
    ELSE LET identity == load(st, sender)
             with_id  == generate_claim_id(claim)
             verified == verify_claim_signature(st, claim, issuer_signature)
         IN  IF has_claim_id(identity.claims, with_id.id)
             THEN [res |-> "ClaimAlreadyExists", st |-> st, claim_id |-> None]
             ELSE IF verified # "Ok"
                  THEN [res |-> verified, st |-> st, claim_id |-> None]
                  ELSE [res |-> "Ok",
                        st  |-> [st EXCEPT ![sender].claims =
                                   Append(identity.claims, with_id)],
                        claim_id |-> with_id.id]

\* add_claim that appends without looking for the id
add_claim_no_duplicate_check(st, sender, claim, issuer_signature) ==
    IF check_key_authorization(st, sender, "ManagementKey") # "Ok"
    THEN [res |-> "Unauthorized", st |-> st, claim_id |-> None]
    ELSE LET verified == verify_claim_signature(st, claim, issuer_signature) IN
         IF verified # "Ok"
         THEN [res |-> verified, st |-> st, claim_id |-> None]
         ELSE LET with_id == generate_claim_id(claim) IN
              [res |-> "Ok",
               st  |-> [st EXCEPT ![sender].claims =
                          Append(load(st, sender).claims, with_id)],
               claim_id |-> with_id.id]

\* add_claim without its authorization check
add_claim_unchecked(st, sender, claim, issuer_signature) ==
    LET verified == verify_claim_signature(st, claim, issuer_signature) IN
    IF verified # "Ok"
    THEN [res |-> verified, st |-> st, claim_id |-> None]
    ELSE LET identity == load(st, sender)
             with_id  == generate_claim_id(claim)
         IN  IF has_claim_id(identity.claims, with_id.id)
             THEN [res |-> "ClaimAlreadyExists", st |-> st, claim_id |-> None]
             ELSE [res |-> "Ok",
                   st  |-> [st EXCEPT ![sender].claims =
                              Append(identity.claims, with_id)],
                   claim_id |-> with_id.id]

\* add_claim(deps, info, claim, issuer_signature)
add_claim(st, sender, claim, issuer_signature) ==
    IF check_key_authorization(st, sender, "ManagementKey") # "Ok"
    THEN [res |-> "Unauthorized", st |-> st, claim_id |-> None]
    ELSE LET verified == verify_claim_signature(st, claim, issuer_signature) IN
         IF verified # "Ok"
         THEN [res |-> verified, st |-> st, claim_id |-> None]
         ELSE LET identity == load(st, sender) IN
              IF ~identity.exists
              THEN [res |-> "NotFound", st |-> st, claim_id |-> None]
              ELSE LET with_id == generate_claim_id(claim) IN
                   IF has_claim_id(identity.claims, with_id.id)
                   THEN [res |-> "ClaimAlreadyExists", st |-> st, claim_id |-> None]
                   ELSE [res |-> "Ok",
                         st  |-> [st EXCEPT ![sender].claims =
                                    Append(identity.claims, with_id)],
                         claim_id |-> with_id.id]

\* remove_claim that retains but never saves the identity
remove_claim_unsaved(st, sender, claim_id) ==
    IF check_key_authorization(st, sender, "ManagementKey") # "Ok"
    THEN [res |-> "Unauthorized", st |-> st]
    ELSE IF ~load(st, sender).exists
         THEN [res |-> "NotFound", st |-> st]
         ELSE [res |-> "Ok", st |-> st]

\* remove_claim without its authorization check
remove_claim_unchecked(st, sender, claim_id) ==
    LET identity == load(st, sender)
        keep(c)  == c.id # Some(claim_id)
    IN  IF ~identity.exists
        THEN [res |-> "NotFound", st |-> st]
        ELSE [res |-> "Ok",
              st  |-> [st EXCEPT ![sender].claims = SelectSeq(identity.claims, keep)]]

\* remove_claim that reports an id no stored claim carries
remove_claim_strict(st, sender, claim_id) ==
    IF check_key_authorization(st, sender, "ManagementKey") # "Ok"
    THEN [res |-> "Unauthorized", st |-> st]
    ELSE LET identity == load(st, sender)
             keep(c)  == c.id # Some(claim_id)
         IN  IF ~has_claim_id(identity.claims, Some(claim_id))
             THEN [res |-> "ClaimNotFound", st |-> st]
             ELSE [res |-> "Ok",
                   st  |-> [st EXCEPT ![sender].claims =
                              SelectSeq(identity.claims, keep)]]

\* remove_claim(deps, info, claim_id)
remove_claim(st, sender, claim_id) ==
    IF check_key_authorization(st, sender, "ManagementKey") # "Ok"
    THEN [res |-> "Unauthorized", st |-> st]
    ELSE LET identity == load(st, sender)
             keep(c)  == c.id # Some(claim_id)
         IN  IF ~identity.exists
             THEN [res |-> "NotFound", st |-> st]
             ELSE [res |-> "Ok",
                   st  |-> [st EXCEPT ![sender].claims =
                              SelectSeq(identity.claims, keep)]]

(* --------------------------------- queries ------------------------------ *)

\* query_key that looks at the key's owner only
query_key_by_owner(owner, st, key_owner, key_type) ==
    LET keys == load(st, owner).keys
        at   == { i \in 1..Len(keys) : keys[i].owner = key_owner }
    IN  IF at = {} THEN [res |-> "NotFound", key |-> None]
        ELSE [res |-> "Ok", key |-> Some(keys[Min(at)])]

\* query_key: the key of the contract owner's key list with this owner and type
query_key(owner, st, key_owner, key_type) ==
    LET keys == load(st, owner).keys
        at   == { i \in 1..Len(keys) :
                    keys[i].key_type = key_type /\ keys[i].owner = key_owner }
    IN  IF at = {} THEN [res |-> "NotFound", key |-> None]
        ELSE [res |-> "Ok", key |-> Some(keys[Min(at)])]

\* verify_claim that counts a claim only while its issuer can still sign
verify_claim_while_signer(st, identity, claim_topic) ==
    LET loaded == load(st, identity) IN
    IF ~loaded.exists THEN [res |-> "NotFound", value |-> FALSE]
    ELSE [res |-> "Ok",
          value |-> \E i \in 1..Len(loaded.claims) :
                       /\ loaded.claims[i].topic = claim_topic
                       /\ find_claim_signer_key(load(st, loaded.claims[i].issuer).keys)
                             # None]

\* verify_claim that is satisfied by any stored claim
verify_claim_any_topic(st, identity, claim_topic) ==
    LET loaded == load(st, identity) IN
    IF ~loaded.exists THEN [res |-> "NotFound", value |-> FALSE]
    ELSE [res |-> "Ok", value |-> loaded.claims # <<>>]

\* verify_claim(deps, identity, claim_topic): some claim of the identity has the topic
verify_claim(st, identity, claim_topic) ==
    LET loaded == load(st, identity) IN
    IF ~loaded.exists THEN [res |-> "NotFound", value |-> FALSE]
    ELSE [res |-> "Ok",
          value |-> \E i \in 1..Len(loaded.claims) :
                       loaded.claims[i].topic = claim_topic]

\* query_owner
query_owner(owner) == owner

(* ------------------------------ topics registry ------------------------- *)

\* what the Owner Roles contract answers to IsOwner{role, owner}
RoleAnswers == {"true", "false", "error"}

\* check_role that lets a caller without the role through
check_role_errors_only(answer) ==
    IF answer = "error" THEN "Std" ELSE "Ok"

\* check_role: the query's own failure is passed on by `?` as a Std error
check_role(answer) ==
    IF answer = "error" THEN "Std"
    ELSE IF answer = "false" THEN "Unauthorized" ELSE "Ok"

\* add_claim_topic that saves the topic again when it is already there
add_claim_topic_overwrite(topics, claim_topic) ==
    [res |-> "Ok", topics |-> topics \cup {claim_topic}]

add_claim_topic(topics, claim_topic) ==
    IF claim_topic \in topics
    THEN [res |-> "ClaimTopicsExists", topics |-> topics]
    ELSE [res |-> "Ok", topics |-> topics \cup {claim_topic}]

\* remove_claim_topic that clears the whole map
remove_claim_topic_clear(topics, claim_topic) ==
    IF claim_topic \notin topics
    THEN [res |-> "ClaimTopicsNotFound", topics |-> topics]
    ELSE [res |-> "Ok", topics |-> {}]

\* remove_claim_topic that accepts a topic that is not there
remove_claim_topic_permissive(topics, claim_topic) ==
    [res |-> "Ok", topics |-> topics \ {claim_topic}]

remove_claim_topic(topics, claim_topic) ==
    IF claim_topic \notin topics
    THEN [res |-> "ClaimTopicsNotFound", topics |-> topics]
    ELSE [res |-> "Ok", topics |-> topics \ {claim_topic}]

is_claim_topic_valid(topics, topic) == topic \in topics

\* query that asks the Owner Roles contract first
query_with_role_check(topics, answer, topic) ==
    IF check_role(answer) # "Ok"
    THEN [res |-> check_role(answer), value |-> FALSE]
    ELSE [res |-> "Ok", value |-> is_claim_topic_valid(topics, topic)]

\* the registry's query, IsClaimTopicValid{topic}: `answer` is what the Owner
\* Roles contract would say about the caller, which the query never asks
query(topics, answer, topic) ==
    [res |-> "Ok", value |-> is_claim_topic_valid(topics, topic)]

RegistryMsgs == {"AddClaimTopic", "RemoveClaimTopic"}

\* execute that runs the operation and checks the role afterwards
execute_check_last(topics, answer, msg, topic) ==
    LET r == IF msg = "AddClaimTopic" THEN add_claim_topic(topics, topic)
             ELSE remove_claim_topic(topics, topic)
    IN  IF check_role(answer) # "Ok"
        THEN [res |-> check_role(answer), topics |-> r.topics]
        ELSE r

\* the registry's execute: the role check, then the operation
execute(topics, answer, msg, topic) ==
    IF check_role(answer) # "Ok"
    THEN [res |-> check_role(answer), topics |-> topics]
    ELSE IF msg = "AddClaimTopic" THEN add_claim_topic(topics, topic)
         ELSE remove_claim_topic(topics, topic)

(* ------------------------------ state machine --------------------------- *)

\* instantiate that also makes the owner a claim signer
instantiate_with_signer_key(owner) ==
    [a \in Addrs |->
        IF a = owner
        THEN [exists |-> TRUE,
              keys   |-> <<[owner |-> owner, key_type |-> "ManagementKey"],
                           [owner |-> owner, key_type |-> "ClaimSignerKey"]>>,
              claims |-> <<>>]
        ELSE NoIdentity]

\* instantiate: the owner's identity with one ManagementKey and no claims
instantiate(owner) ==
    [a \in Addrs |->
        IF a = owner
        THEN [exists |-> TRUE,
              keys   |-> <<[owner |-> owner, key_type |-> "ManagementKey"]>>,
              claims |-> <<>>]
        ELSE NoIdentity]

\* the message the contract is instantiated with
InstantiateMsg == [owner |-> "o"]

Init ==
    /\ OWNER = InstantiateMsg.owner
    /\ IDENTITY = instantiate(InstantiateMsg.owner)
    /\ CLAIM_TOPICS = {}

\* ids a RemoveClaim may name: every derivable id and the client's own
ClaimIdInputs ==
    { generate_claim_id(c).id[1] : c \in ClaimInputs } \cup { <<"client", <<>>>> }

WithinBounds(st) == \A a \in Addrs : Len(st[a].keys) <= MaxKeys

AddKey ==
    \E sender \in Addrs, key_owner \in Addrs, key_type \in KeyType :
        LET r == execute_add_key(IDENTITY, sender, key_owner, key_type) IN
        /\ WithinBounds(r.st)
        /\ IDENTITY' = r.st
        /\ UNCHANGED <<OWNER, CLAIM_TOPICS>>

RevokeKey ==
    \E sender \in Addrs, key_owner \in Addrs, key_type \in KeyType :
        /\ IDENTITY' = execute_remove_key(IDENTITY, sender, key_owner, key_type).st
        /\ UNCHANGED <<OWNER, CLAIM_TOPICS>>

AddClaim ==
    \E sender \in Addrs, claim \in ClaimInputs :
        \E issuer_signature \in SignatureInputs(claim) :
            /\ IDENTITY' = add_claim(IDENTITY, sender, claim, issuer_signature).st
            /\ UNCHANGED <<OWNER, CLAIM_TOPICS>>

RemoveClaim ==
    \E sender \in Addrs, claim_id \in ClaimIdInputs :
        /\ IDENTITY' = remove_claim(IDENTITY, sender, claim_id).st
        /\ UNCHANGED <<OWNER, CLAIM_TOPICS>>

Execute ==
    \E answer \in RoleAnswers, msg \in RegistryMsgs, topic \in Topics :
        /\ CLAIM_TOPICS' = execute(CLAIM_TOPICS, answer, msg, topic).topics
        /\ UNCHANGED <<OWNER, IDENTITY>>

\* the identity contract's execute
NextIdentity == AddKey \/ RevokeKey \/ AddClaim \/ RemoveClaim

\* both contracts
Next == NextIdentity \/ Execute

\* the identity contract on its own
SpecIdentity == Init /\ [][NextIdentity]_vars

\* the identity contract and the topics registry
Spec == Init /\ [][Next]_vars

(* ------------------------- vocabulary of the claims --------------------- *)

Keys(identity) == IDENTITY[identity].keys

Claims(identity) == IDENTITY[identity].claims

Exists(identity) == IDENTITY[identity].exists

\* the identity's key set holds the entry (caller, key_type)
Holds(identity, caller, key_type) ==
    [owner |-> caller, key_type |-> key_type] \in Range(Keys(identity))

\* the sender holds a ManagementKey on the identity its calls act on
ManagementKeyHolder(sender) == Exists(sender) /\ Holds(sender, sender, "ManagementKey")

\* the list `s` without the elements equal to one of `gone`, order kept
RECURSIVE Without(_, _)
Without(s, gone) ==
    IF s = <<>> THEN <<>>
    ELSE IF Head(s) \in gone THEN Without(Tail(s), gone)
         ELSE <<Head(s)>> \o Without(Tail(s), gone)

(* ---------------------------------- C1 ---------------------------------- *)

\* C1: for every identity and every caller holding no (caller, ManagementKey)
\* entry in that identity's key set, whatever other keys the caller holds,
\* each of AddKey, RevokeKey, AddClaim and RemoveClaim returns Unauthorized
\* and leaves every identity's keys and claims as they were.
C1_UnauthorizedWithoutManagementKey ==
    \A identity \in Addrs, caller \in Addrs :
        (Exists(identity) /\ ~Holds(identity, caller, "ManagementKey")) =>
            /\ \A key_owner \in Addrs, key_type \in KeyType :
                  /\ execute_add_key(IDENTITY, caller, key_owner, key_type)
                       = [res |-> "Unauthorized", st |-> IDENTITY]
                  /\ execute_remove_key(IDENTITY, caller, key_owner, key_type)
                       = [res |-> "Unauthorized", st |-> IDENTITY]
            /\ \A claim \in ClaimInputs :
                  \A issuer_signature \in SignatureInputs(claim) :
                      LET r == add_claim(IDENTITY, caller, claim, issuer_signature)
                      IN  r.res = "Unauthorized" /\ r.st = IDENTITY
            /\ \A claim_id \in ClaimIdInputs :
                  remove_claim(IDENTITY, caller, claim_id)
                    = [res |-> "Unauthorized", st |-> IDENTITY]

\* an identity that stores a claim and whose own account holds a ClaimSignerKey
\* but no ManagementKey: its correctly signed AddClaim is refused
C1_Witness ==
    \E identity \in Addrs, caller \in Addrs, claim \in ClaimInputs :
        /\ Exists(identity)
        /\ caller = identity
        /\ ~Holds(identity, caller, "ManagementKey")
        /\ Holds(identity, caller, "ClaimSignerKey")
        /\ Claims(identity) # <<>>
        /\ claim.issuer = caller
        /\ add_claim(IDENTITY, caller, claim,
                     Sign(caller, Sha256(to_vec(claim)))).res = "Unauthorized"

(* ---------------------------------- C2 ---------------------------------- *)

\* C2: in every reachable state no identity's key list holds two entries with
\* the same (owner, key_type) pair.
C2_KeyPairsUnique ==
    \A identity \in Addrs :
        \A i \in 1..Len(Keys(identity)), j \in 1..Len(Keys(identity)) :
            Keys(identity)[i] = Keys(identity)[j] => i = j

\* one owner holding three different key types on the same identity
C2_Witness ==
    \E identity \in Addrs, owner \in Addrs :
        /\ Len(Keys(identity)) = 3
        /\ \A i \in 1..3 : Keys(identity)[i].owner = owner

(* ---------------------------------- C3 ---------------------------------- *)

\* C3: AddKey by a ManagementKey holder returns KeyAlreadyExists and changes
\* nothing when the pair (key_owner, key_type) is already in the key set, the
\* bootstrap (owner, ManagementKey) included; when the pair is absent it
\* returns Ok and the pair is in the key set afterwards.
C3_AddKeyRejectsPresentPair ==
    \A sender \in Addrs, key_owner \in Addrs, key_type \in KeyType :
        ManagementKeyHolder(sender) =>
            LET r == execute_add_key(IDENTITY, sender, key_owner, key_type) IN
            IF Holds(sender, key_owner, key_type)
            THEN r.res = "KeyAlreadyExists" /\ r.st = IDENTITY
            ELSE /\ r.res = "Ok"
                 /\ [owner |-> key_owner, key_type |-> key_type]
                        \in Range(r.st[sender].keys)

\* the owner still holds its bootstrap ManagementKey beside another key of its
\* own, and adding the bootstrap pair again is refused
C3_Witness ==
    /\ ManagementKeyHolder(OWNER)
    /\ Holds(OWNER, OWNER, "ClaimSignerKey")
    /\ execute_add_key(IDENTITY, OWNER, OWNER, "ManagementKey").res = "KeyAlreadyExists"
    /\ execute_add_key(IDENTITY, OWNER, OWNER, "EncryptionKey").res = "Ok"

(* ---------------------------------- C4 ---------------------------------- *)

\* C4: RevokeKey(key_owner, key_type) by a ManagementKey holder returns Ok; the
\* key list afterwards is the previous list without the entries equal to the
\* pair, the others in their order; nothing else changes, so the whole store is
\* unchanged when no entry matched; GetKey for the pair then fails.
C4_RevokeKeyRetains ==
    \A sender \in Addrs, key_owner \in Addrs, key_type \in KeyType :
        ManagementKeyHolder(sender) =>
            LET r    == execute_remove_key(IDENTITY, sender, key_owner, key_type)
                pair == [owner |-> key_owner, key_type |-> key_type]
            IN  /\ r.res = "Ok"
                /\ r.st = [IDENTITY EXCEPT ![sender].keys =
                              Without(Keys(sender), {pair})]
                /\ (~Holds(sender, key_owner, key_type) => r.st = IDENTITY)
                /\ query_key(OWNER, r.st, key_owner, key_type).res = "NotFound"

\* a key list of three entries whose middle entry is revoked while the owner
\* keeps another key, and a revocation of a pair that is not there
C4_Witness ==
    \E key_type \in KeyType, absent \in KeyType :
        /\ ManagementKeyHolder(OWNER)
        /\ Len(Keys(OWNER)) = 3
        /\ Keys(OWNER)[2] = [owner |-> OWNER, key_type |-> key_type]
        /\ Len(execute_remove_key(IDENTITY, OWNER, OWNER, key_type).st[OWNER].keys) = 2
        /\ ~Holds(OWNER, OWNER, absent)
        /\ execute_remove_key(IDENTITY, OWNER, OWNER, absent).res = "Ok"

(* ---------------------------------- C5 ---------------------------------- *)

\* the two claims agree on (topic, issuer, signature, data, uri)
SameContent(c, d) ==
    /\ c.topic = d.topic /\ c.issuer = d.issuer
    /\ c.signature = d.signature /\ c.data = d.data /\ c.uri = d.uri

DerivedId(c) ==
    Some(Sha256(to_string(c.topic) \o as_bytes(c.issuer)
                \o c.signature \o c.data \o c.uri))

\* C6: every stored claim carries the id derived from its own (topic, issuer,
\* signature, data, uri); an accepted AddClaim returns that id and stores the
\* claim under it whatever id the submitted claim carried; submissions that
\* differ in the client's id only derive the same id.
C6_StoredIdIsDerived ==
    /\ \A identity \in Addrs :
           \A i \in 1..Len(Claims(identity)) :
               Claims(identity)[i].id = DerivedId(Claims(identity)[i])
    /\ \A sender \in Addrs, claim \in ClaimInputs :
           /\ \A issuer_signature \in SignatureInputs(claim) :
                  LET r == add_claim(IDENTITY, sender, claim, issuer_signature) IN
                  r.res = "Ok" =>
                      /\ r.claim_id = DerivedId(claim)
                      /\ r.st[sender].claims =
                            Append(Claims(sender), [claim EXCEPT !.id = DerivedId(claim)])
           /\ \A id \in ClientIds :
                  generate_claim_id([claim EXCEPT !.id = id]).id
                     = generate_claim_id(claim).id

\* a claim submitted with an id of the client's choosing is accepted
C6_Witness ==
    \E claim \in ClaimInputs :
        \E issuer_signature \in SignatureInputs(claim) :
            /\ claim.id # None
            /\ Claims(OWNER) # <<>>
            /\ add_claim(IDENTITY, OWNER, claim, issuer_signature).res = "Ok"

(* ---------------------------------- C7 ---------------------------------- *)

\* C7: AddClaim by a ManagementKey holder for a claim whose issuer has an
\* identity with no ClaimSignerKey in its key set returns Unauthorized and
\* changes nothing.
C7_IssuerWithoutSignerKey ==
    \A sender \in Addrs, claim \in ClaimInputs :
        \A issuer_signature \in SignatureInputs(claim) :
            ( /\ ManagementKeyHolder(sender)
              /\ Exists(claim.issuer)
              /\ \A i \in 1..Len(Keys(claim.issuer)) :
                     Keys(claim.issuer)[i].key_type # "ClaimSignerKey" )
            => LET r == add_claim(IDENTITY, sender, claim, issuer_signature)
               IN  r.res = "Unauthorized" /\ r.st = IDENTITY

\* the issuer holds other keys but no ClaimSignerKey, and signs its claim itself
C7_Witness ==
    \E claim \in ClaimInputs :
        /\ ManagementKeyHolder(OWNER)
        /\ claim.issuer = OWNER
        /\ Len(Keys(OWNER)) >= 2
        /\ \A i \in 1..Len(Keys(OWNER)) : Keys(OWNER)[i].key_type # "ClaimSignerKey"
        /\ add_claim(IDENTITY, OWNER, claim,
                     Sign(OWNER, Sha256(to_vec(claim)))).res = "Unauthorized"

(* ---------------------------------- C8 ---------------------------------- *)

\* C8: AddClaim returns Ok only if the key set of the issuer's identity holds
\* a ClaimSignerKey entry whose owner is the claim's issuer.
C8_SignerKeyOwnedByIssuer ==
    \A sender \in Addrs, claim \in ClaimInputs :
        \A issuer_signature \in SignatureInputs(claim) :
            add_claim(IDENTITY, sender, claim, issuer_signature).res = "Ok"
                => Holds(claim.issuer, claim.issuer, "ClaimSignerKey")

(* ---------------------------------- C9 ---------------------------------- *)

\* issuer_signature verifies under the key entry `k` for the submitted claim
VerifiesUnder(claim, issuer_signature, k) ==
    secp256k1_verify(Sha256(to_vec(claim)), issuer_signature, k.owner) = "True"

\* the ClaimSignerKey entries registered on the identity
SignerKeys(identity) ==
    { k \in Range(Keys(identity)) : k.key_type = "ClaimSignerKey" }

\* C9: for AddClaim by a ManagementKey holder and an issuer with a
\* ClaimSignerKey, an issuer_signature that verifies under no ClaimSignerKey
\* registered on the issuer's identity returns InvalidIssuerSignature and
\* changes nothing, and one that verifies under a registered ClaimSignerKey is
\* accepted unless the derived id is already stored.
C9_SignatureDecidesAcceptance ==
    \A sender \in Addrs, claim \in ClaimInputs :
        \A issuer_signature \in SignatureInputs(claim) :
            ( /\ ManagementKeyHolder(sender)
              /\ Exists(claim.issuer)
              /\ SignerKeys(claim.issuer) # {} )
            => LET r == add_claim(IDENTITY, sender, claim, issuer_signature) IN
               IF \E k \in SignerKeys(claim.issuer) :
                      VerifiesUnder(claim, issuer_signature, k)
               THEN (\A i \in 1..Len(Claims(sender)) :
                         Claims(sender)[i].id # DerivedId(claim))
                    => r.res = "Ok"
               ELSE r.res = "InvalidIssuerSignature" /\ r.st = IDENTITY

(* ---------------------------------- C10 --------------------------------- *)

\* C10: a call of AddKey, RevokeKey, AddClaim, RemoveClaim, AddClaimTopic or
\* RemoveClaimTopic that returns an error hands back the store it was given:
\* keys, claims and topic set are what they were before the call.
C10_ErrorLeavesStateUnchanged ==
    /\ \A sender \in Addrs :
          /\ \A key_owner \in Addrs, key_type \in KeyType :
                /\ LET r == execute_add_key(IDENTITY, sender, key_owner, key_type)
                   IN  r.res # "Ok" => r.st = IDENTITY
                /\ LET r == execute_remove_key(IDENTITY, sender, key_owner, key_type)
                   IN  r.res # "Ok" => r.st = IDENTITY
          /\ \A claim \in ClaimInputs :
                \A issuer_signature \in SignatureInputs(claim) :
                    LET r == add_claim(IDENTITY, sender, claim, issuer_signature)
                    IN  r.res # "Ok" => r.st = IDENTITY
          /\ \A claim_id \in ClaimIdInputs :
                LET r == remove_claim(IDENTITY, sender, claim_id)
                IN  r.res # "Ok" => r.st = IDENTITY
    /\ \A answer \in RoleAnswers, msg \in RegistryMsgs, topic \in Topics :
          LET r == execute(CLAIM_TOPICS, answer, msg, topic)
          IN  r.res # "Ok" => r.topics = CLAIM_TOPICS

\* keys, claims and topics are all there, and calls fail after the
\* authorization check as well as at it
C10_Witness ==
    \E claim \in ClaimInputs, topic \in Topics, absent \in Topics :
        /\ Len(Keys(OWNER)) >= 2
        /\ add_claim(IDENTITY, OWNER, claim,
                     Sign(OWNER, Sha256(to_vec(claim)))).res = "ClaimAlreadyExists"
        /\ add_claim(IDENTITY, OWNER, claim, Malformed).res = "InvalidIssuerSignature"
        /\ execute(CLAIM_TOPICS, "true", "AddClaimTopic", topic).res = "ClaimTopicsExists"
        /\ execute(CLAIM_TOPICS, "true", "RemoveClaimTopic", absent).res
              = "ClaimTopicsNotFound"
        /\ execute(CLAIM_TOPICS, "false", "RemoveClaimTopic", topic).res = "Unauthorized"

(* ---------------------------------- C11 --------------------------------- *)

\* the stored claims of the identity that carry the id
ClaimsWithId(identity, claim_id) ==
    { c \in Range(Claims(identity)) : c.id = Some(claim_id) }

C12_VerifyClaimIsTopicMembership ==
    \A identity \in Addrs, topic \in Topics :
        LET r == verify_claim(IDENTITY, identity, topic) IN
        /\ (r.res = "Ok" /\ r.value)
              <=> (\E i \in 1..Len(Claims(identity)) : Claims(identity)[i].topic = topic)
        /\ Exists(identity) => r.res = "Ok"
        /\ DOMAIN r = {"res", "value"}

\* an identity whose only claim has one topic: true for it, false for the other
C12_Witness ==
    \E topic \in Topics, other \in Topics :
        /\ Len(Claims(OWNER)) = 1
        /\ Claims(OWNER)[1].topic = topic
        /\ verify_claim(IDENTITY, OWNER, topic) = [res |-> "Ok", value |-> TRUE]
        /\ verify_claim(IDENTITY, OWNER, other) = [res |-> "Ok", value |-> FALSE]

(* ---------------------------------- C13 --------------------------------- *)

\* verify_claim answers true for the topic on the owner's identity in store st
VerifiedIn(st, topic) ==
    verify_claim(st, OWNER, topic) = [res |-> "Ok", value |-> TRUE]

\* C13: from the bootstrap state, and from every state in which the owner
\* manages its identity and stores no claim with topic T: after the owner adds
\* a ClaimSignerKey for itself, an AddClaim with topic T that returns Ok makes
\* verify_claim for T answer true, and the RemoveClaim of the returned id that
\* returns Ok makes verify_claim for T answer false or NotFound.
C13_Lifecycle ==
    \A claim \in ClaimInputs :
        \A issuer_signature \in SignatureInputs(claim) :
            ( /\ ManagementKeyHolder(OWNER)
              /\ ~VerifiedIn(IDENTITY, claim.topic) )
            => LET keyed   == execute_add_key(IDENTITY, OWNER, OWNER, "ClaimSignerKey")
                   added   == add_claim(keyed.st, OWNER, claim, issuer_signature)
                   removed == remove_claim(added.st, OWNER, added.claim_id[1])
               IN  added.res = "Ok" =>
                       /\ VerifiedIn(added.st, claim.topic)
                       /\ removed.res = "Ok" => ~VerifiedIn(removed.st, claim.topic)

\* the state the lifecycle passes through: the bootstrap key, the owner's
\* ClaimSignerKey and the one claim it signed, verified now and no longer
\* verified once removed
C13_Witness ==
    /\ Keys(OWNER) = <<[owner |-> OWNER, key_type |-> "ManagementKey"],
                       [owner |-> OWNER, key_type |-> "ClaimSignerKey"]>>
    /\ Len(Claims(OWNER)) = 1
    /\ VerifiedIn(IDENTITY, Claims(OWNER)[1].topic)
    /\ LET removed == remove_claim(IDENTITY, OWNER, Claims(OWNER)[1].id[1])
       IN  removed.res = "Ok" /\ ~VerifiedIn(removed.st, Claims(OWNER)[1].topic)

(* ---------------------------------- C14 --------------------------------- *)

\* RemoveClaim by the issuer of a stored claim that holds no ManagementKey on
\* the identity storing it returns Unauthorized and changes nothing
IssuerCannotRemove ==
    \A identity \in Addrs :
        \A i \in 1..Len(Claims(identity)) :
            LET claim == Claims(identity)[i] IN
            ~Holds(identity, claim.issuer, "ManagementKey") =>
                remove_claim(IDENTITY, claim.issuer, claim.id[1])
                   = [res |-> "Unauthorized", st |-> IDENTITY]

\* a step that changes an identity's claim list is an accepted AddClaim, or an
\* accepted RemoveClaim sent by a holder of a ManagementKey on that identity
ClaimsChangeByAddOrRemove ==
    \A identity \in Addrs :
        IDENTITY'[identity].claims # IDENTITY[identity].claims =>
            \/ \E claim \in ClaimInputs :
                  \E issuer_signature \in SignatureInputs(claim) :
                      LET r == add_claim(IDENTITY, identity, claim, issuer_signature)
                      IN  r.res = "Ok" /\ IDENTITY' = r.st
            \/ \E claim_id \in ClaimIdInputs :
                  LET r == remove_claim(IDENTITY, identity, claim_id)
                  IN  /\ r.res = "Ok" /\ IDENTITY' = r.st
                      /\ Holds(identity, identity, "ManagementKey")

\* C14: a claim is removed only by a call from a holder of a ManagementKey on
\* the identity that stores it: RemoveClaim by the claim's issuer, when the
\* issuer holds no such key, returns Unauthorized and the claim stays; and a
\* claim list changes only through an accepted AddClaim or RemoveClaim.
C14_OnlyManagementRemoves ==
    []IssuerCannotRemove /\ [][ClaimsChangeByAddOrRemove]_vars

\* the issuer of a stored claim has lost its ManagementKey on the identity,
\* keeps its ClaimSignerKey, and its RemoveClaim is refused
C14_Witness ==
    \E identity \in Addrs :
        /\ Len(Claims(identity)) >= 1
        /\ LET claim == Claims(identity)[1] IN
           /\ ~Holds(identity, claim.issuer, "ManagementKey")
           /\ Holds(identity, claim.issuer, "ClaimSignerKey")
           /\ remove_claim(IDENTITY, claim.issuer, claim.id[1]).res = "Unauthorized"

(* ---------------------------------- C15 --------------------------------- *)

\* C15: when the Owner Roles contract answers false for the caller, both
\* AddClaimTopic and RemoveClaimTopic return Unauthorized and the topic set is
\* unchanged, for every topic and every topic set.
C15_NoRoleIsUnauthorized ==
    \A msg \in RegistryMsgs, topic \in Topics :
        execute(CLAIM_TOPICS, "false", msg, topic)
          = [res |-> "Unauthorized", topics |-> CLAIM_TOPICS]

\* one topic is registered and another is not: the add of the missing one and
\* the removal of the registered one, both of which a manager could make, are
\* refused
C15_Witness ==
    \E present \in Topics, absent \in Topics :
        /\ present \in CLAIM_TOPICS /\ absent \notin CLAIM_TOPICS
        /\ execute(CLAIM_TOPICS, "true", "AddClaimTopic", absent).res = "Ok"
        /\ execute(CLAIM_TOPICS, "true", "RemoveClaimTopic", present).res = "Ok"
        /\ execute(CLAIM_TOPICS, "false", "AddClaimTopic", absent).res = "Unauthorized"
        /\ execute(CLAIM_TOPICS, "false", "RemoveClaimTopic", present).res = "Unauthorized"

(* ---------------------------------- C16 --------------------------------- *)

\* C16: when the query to the Owner Roles contract itself fails, both
\* AddClaimTopic and RemoveClaimTopic return the error kind Unauthorized and
\* the topic set is unchanged.
C16_QueryFailureIsUnauthorized ==
    \A msg \in RegistryMsgs, topic \in Topics :
        execute(CLAIM_TOPICS, "error", msg, topic)
          = [res |-> "Unauthorized", topics |-> CLAIM_TOPICS]

(* ---------------------------------- C17 --------------------------------- *)

\* C17: AddClaimTopic(T) by a caller with the ClaimRegistryManager role returns
\* ClaimTopicsExists and leaves the topic set unchanged when T is in the set;
\* otherwise it returns Ok and the set becomes the previous set plus T, every
\* other topic's membership as before.
C17_AddClaimTopic ==
    \A topic \in Topics :
        LET r == execute(CLAIM_TOPICS, "true", "AddClaimTopic", topic) IN
        IF topic \in CLAIM_TOPICS
        THEN r = [res |-> "ClaimTopicsExists", topics |-> CLAIM_TOPICS]
        ELSE /\ r.res = "Ok"
             /\ r.topics = CLAIM_TOPICS \cup {topic}
             /\ \A other \in Topics \ {topic} :
                    is_claim_topic_valid(r.topics, other)
                      <=> is_claim_topic_valid(CLAIM_TOPICS, other)

\* a set holding one topic and missing another: adding the first is refused,
\* adding the second is accepted and keeps the first
C17_Witness ==
    \E present \in Topics, absent \in Topics :
        /\ present \in CLAIM_TOPICS /\ absent \notin CLAIM_TOPICS
        /\ execute(CLAIM_TOPICS, "true", "AddClaimTopic", present).res = "ClaimTopicsExists"
        /\ execute(CLAIM_TOPICS, "true", "AddClaimTopic", absent)
              = [res |-> "Ok", topics |-> {present, absent}]

(* ---------------------------------- C18 --------------------------------- *)

\* C18: RemoveClaimTopic(T) by a caller with the ClaimRegistryManager role
\* returns ClaimTopicsNotFound and leaves the topic set unchanged when T is
\* not in the set; otherwise it returns Ok and the set becomes the previous
\* set minus T, every other topic's membership as before.
C18_RemoveClaimTopic ==
    \A topic \in Topics :
        LET r == execute(CLAIM_TOPICS, "true", "RemoveClaimTopic", topic) IN
        IF topic \notin CLAIM_TOPICS
        THEN r = [res |-> "ClaimTopicsNotFound", topics |-> CLAIM_TOPICS]
        ELSE /\ r.res = "Ok"
             /\ r.topics = CLAIM_TOPICS \ {topic}
             /\ \A other \in Topics \ {topic} :
                    is_claim_topic_valid(r.topics, other)
                      <=> is_claim_topic_valid(CLAIM_TOPICS, other)

\* both topics are registered: removing one keeps the other, after which the
\* same removal is refused
C18_Witness ==
    \E topic \in Topics, other \in Topics :
        /\ CLAIM_TOPICS = {topic, other} /\ topic # other
        /\ LET r == execute(CLAIM_TOPICS, "true", "RemoveClaimTopic", topic) IN
           /\ r = [res |-> "Ok", topics |-> {other}]
           /\ execute(r.topics, "true", "RemoveClaimTopic", topic).res
                 = "ClaimTopicsNotFound"

(* ---------------------------------- C19 --------------------------------- *)

\* what an accepted add and an accepted removal of the topic lead to
RoundTrip ==
    \A topic \in Topics :
        LET added   == execute(CLAIM_TOPICS, "true", "AddClaimTopic", topic)
            removed == execute(CLAIM_TOPICS, "true", "RemoveClaimTopic", topic)
        IN  /\ added.res = "Ok" => is_claim_topic_valid(added.topics, topic)
            /\ removed.res = "Ok" =>
                  /\ ~is_claim_topic_valid(removed.topics, topic)
                  /\ execute(removed.topics, "true", "RemoveClaimTopic", topic)
                        = [res |-> "ClaimTopicsNotFound", topics |-> removed.topics]

\* a topic stops being valid only in the step that removes it and becomes
\* valid only in the step that adds it
ValidityChangesByOwnTopic ==
    \A topic \in Topics :
        /\ (is_claim_topic_valid(CLAIM_TOPICS, topic)
              /\ ~is_claim_topic_valid(CLAIM_TOPICS', topic))
            => CLAIM_TOPICS' = CLAIM_TOPICS \ {topic}
        /\ (~is_claim_topic_valid(CLAIM_TOPICS, topic)
              /\ is_claim_topic_valid(CLAIM_TOPICS', topic))
            => CLAIM_TOPICS' = CLAIM_TOPICS \cup {topic}

\* C19: after an accepted AddClaimTopic(T), IsClaimTopicValid(T) is true until
\* an accepted RemoveClaimTopic(T); after an accepted RemoveClaimTopic(T) it is
\* false until the next accepted AddClaimTopic(T); and a second
\* RemoveClaimTopic(T) in a row returns ClaimTopicsNotFound.
C19_RegistryRoundTrip ==
    []RoundTrip /\ [][ValidityChangesByOwnTopic]_vars

\* a topic that was added beside another one is valid, is removed on its own,
\* and cannot be removed a second time
C19_Witness ==
    \E topic \in Topics, other \in Topics :
        /\ topic # other
        /\ is_claim_topic_valid(CLAIM_TOPICS, topic)
        /\ is_claim_topic_valid(CLAIM_TOPICS, other)
        /\ LET removed == execute(CLAIM_TOPICS, "true", "RemoveClaimTopic", topic) IN
           /\ removed.res = "Ok"
           /\ ~is_claim_topic_valid(removed.topics, topic)
           /\ is_claim_topic_valid(removed.topics, other)
           /\ execute(removed.topics, "true", "RemoveClaimTopic", topic).res
                 = "ClaimTopicsNotFound"

(* ---------------------------------- C20 --------------------------------- *)

\* C20: IsClaimTopicValid(T) answers exactly whether T is in the topic set,
\* whoever asks and whatever the Owner Roles contract would answer about the
\* caller; it is a read: its result carries no topic set.
C20_ValidityIsMembership ==
    \A topic \in Topics, answer \in RoleAnswers :
        LET r == query(CLAIM_TOPICS, answer, topic) IN
        /\ r = [res |-> "Ok", value |-> topic \in CLAIM_TOPICS]
        /\ is_claim_topic_valid(CLAIM_TOPICS, topic) <=> topic \in CLAIM_TOPICS

\* one topic valid and one not, asked by a caller that would be refused any
\* change to the registry
C20_Witness ==
    \E present \in Topics, absent \in Topics :
        /\ execute(CLAIM_TOPICS, "false", "RemoveClaimTopic", present).res = "Unauthorized"
        /\ execute(CLAIM_TOPICS, "error", "AddClaimTopic", absent).res # "Ok"
        /\ query(CLAIM_TOPICS, "false", present).value
        /\ query(CLAIM_TOPICS, "error", present).value
        /\ ~query(CLAIM_TOPICS, "false", absent).value
        /\ ~query(CLAIM_TOPICS, "true", absent).value

(* ---------------------------------- C21 --------------------------------- *)

\* the state right after instantiate with owner O: the identity's key set is
\* the single entry (O, ManagementKey), it has no claims, no other identity
\* exists, and GetOwner answers O
Bootstrap ==
    /\ Keys(InstantiateMsg.owner)
          = <<[owner |-> InstantiateMsg.owner, key_type |-> "ManagementKey"]>>
    /\ Claims(InstantiateMsg.owner) = <<>>
    /\ \A a \in Addrs \ {InstantiateMsg.owner} : ~Exists(a)
    /\ query_owner(OWNER) = InstantiateMsg.owner

\* C21: the initial state is the bootstrap state, and GetOwner answers the
\* owner given at instantiation in every state reached by AddKey, RevokeKey,
\* AddClaim and RemoveClaim.
C21_BootstrapAndOwner ==
    Bootstrap /\ [](query_owner(OWNER) = InstantiateMsg.owner)

\* the owner has given up its ManagementKey, other keys and a claim are
\* stored, and GetOwner still answers the owner
C21_Witness ==
    /\ ~Holds(InstantiateMsg.owner, InstantiateMsg.owner, "ManagementKey")
    /\ Len(Keys(InstantiateMsg.owner)) >= 2
    /\ Claims(InstantiateMsg.owner) # <<>>
    /\ query_owner(OWNER) = InstantiateMsg.owner

(* ---------------------------------- C22 --------------------------------- *)

\* some caller has a call of AddKey, RevokeKey, AddClaim or RemoveClaim that
\* returns Ok and changes the store
CanStillChange ==
    \E caller \in Addrs :
        \/ \E key_owner \in Addrs, key_type \in KeyType :
              \/ LET r == execute_add_key(IDENTITY, caller, key_owner, key_type)
                 IN  r.res = "Ok" /\ r.st # IDENTITY
              \/ LET r == execute_remove_key(IDENTITY, caller, key_owner, key_type)
                 IN  r.res = "Ok" /\ r.st # IDENTITY
        \/ \E claim \in ClaimInputs :
              \E issuer_signature \in SignatureInputs(claim) :
                  LET r == add_claim(IDENTITY, caller, claim, issuer_signature)
                  IN  r.res = "Ok" /\ r.st # IDENTITY
        \/ \E claim_id \in ClaimIdInputs :
              LET r == remove_claim(IDENTITY, caller, claim_id)
              IN  r.res = "Ok" /\ r.st # IDENTITY

\* C22: the identity has no terminal state: in every state reachable from
\* bootstrap some caller has a call of AddKey, RevokeKey, AddClaim or
\* RemoveClaim that is accepted and changes the identity.
C22_NoTerminalState == CanStillChange

(* ---------------------------------- C23 --------------------------------- *)

\* a claim with the same (topic, issuer, signature, data, uri) is stored
StoredWithContent(identity, claim) ==
    \E i \in 1..Len(Claims(identity)) : SameContent(Claims(identity)[i], claim)

\* C23: add_claim checks authorization, then the issuer's signature, then the
\* id: a sender without a ManagementKey gets Unauthorized whatever the
\* signature and whether or not the claim is stored; a ManagementKey holder
\* whose claim fails verification gets the verification's error and never
\* ClaimAlreadyExists; and when the issuer has a ClaimSignerKey and the
\* signature verifies under none, the holder gets InvalidIssuerSignature even
\* for a claim whose content is stored.
C23_CheckOrder ==
    \A sender \in Addrs, claim \in ClaimInputs :
        \A issuer_signature \in SignatureInputs(claim) :
            LET r == add_claim(IDENTITY, sender, claim, issuer_signature) IN
            /\ ~ManagementKeyHolder(sender) => r.res = "Unauthorized"
            /\ ( /\ ManagementKeyHolder(sender)
                 /\ verify_claim_signature(IDENTITY, claim, issuer_signature) # "Ok" )
               => r.res = verify_claim_signature(IDENTITY, claim, issuer_signature)
            /\ ( /\ ManagementKeyHolder(sender)
                 /\ Exists(claim.issuer)
                 /\ SignerKeys(claim.issuer) # {}
                 /\ ~\E k \in SignerKeys(claim.issuer) :
                        VerifiesUnder(claim, issuer_signature, k) )
               => r.res = "InvalidIssuerSignature"

\* a stored claim is submitted again by the owner: refused as a duplicate with
\* a signature that verifies, as InvalidIssuerSignature with one that does
\* not; and submitted by an account without a ManagementKey it is refused as
\* Unauthorized with either signature
C23_Witness ==
    \E claim \in ClaimInputs, other \in Addrs, k \in Addrs :
        /\ ManagementKeyHolder(OWNER)
        /\ StoredWithContent(OWNER, claim)
        /\ add_claim(IDENTITY, OWNER, claim, Sign(k, Sha256(to_vec(claim)))).res
              = "ClaimAlreadyExists"
        /\ add_claim(IDENTITY, OWNER, claim, Malformed).res = "InvalidIssuerSignature"
        /\ ~ManagementKeyHolder(other)
        /\ add_claim(IDENTITY, other, claim, Sign(k, Sha256(to_vec(claim)))).res
              = "Unauthorized"
        /\ add_claim(IDENTITY, other, claim, Malformed).res = "Unauthorized"

(* ---------------------------------- C24 --------------------------------- *)

\* C24: in every reachable state no two claims stored on the same identity
\* carry the same id, and every stored claim carries an id.
C24_ClaimIdsUnique ==
    \A identity \in Addrs :
        \A i \in 1..Len(Claims(identity)) :
            /\ Claims(identity)[i].id # None
            /\ \A j \in 1..Len(Claims(identity)) :
                   Claims(identity)[i].id = Claims(identity)[j].id => i = j

\* two claims are stored, and submitting the first of them again, as the
\* client sent it and with a signature that verifies, is refused
C24_Witness ==
    \E claim \in ClaimInputs, k \in Addrs :
        /\ Len(Claims(OWNER)) = 2
        /\ SameContent(Claims(OWNER)[1], claim)
        /\ claim.id = None
        /\ add_claim(IDENTITY, OWNER, claim, Sign(k, Sha256(to_vec(claim)))).res
              = "ClaimAlreadyExists"

(* ---------------------------------- C25 --------------------------------- *)

\* no AddKey and no RevokeKey, accepted or not, changes a claim list or an
\* answer of verify_claim
KeyChangesKeepClaims ==
    \A sender \in Addrs, key_owner \in Addrs, key_type \in KeyType :
        LET added   == execute_add_key(IDENTITY, sender, key_owner, key_type).st
            revoked == execute_remove_key(IDENTITY, sender, key_owner, key_type).st
        IN  \A identity \in Addrs :
                /\ added[identity].claims = Claims(identity)
                /\ revoked[identity].claims = Claims(identity)
                /\ \A topic \in Topics :
                       /\ verify_claim(added, identity, topic)
                             = verify_claim(IDENTITY, identity, topic)
                       /\ verify_claim(revoked, identity, topic)
                             = verify_claim(IDENTITY, identity, topic)

\* verify_claim stops answering true for a topic only in the step of an
\* accepted RemoveClaim after which no claim of the identity has the topic
VerifiedUntilRemoved ==
    \A identity \in Addrs, topic \in Topics :
        ( /\ verify_claim(IDENTITY, identity, topic).value
          /\ ~verify_claim(IDENTITY', identity, topic).value )
        => /\ \E claim_id \in ClaimIdInputs :
                 remove_claim(IDENTITY, identity, claim_id)
                   = [res |-> "Ok", st |-> IDENTITY']
           /\ \A i \in 1..Len(IDENTITY'[identity].claims) :
                 IDENTITY'[identity].claims[i].topic # topic

\* C25: a stored claim outlives its issuer's signing authority: removing the
\* issuer's ClaimSignerKey, or any other change of keys, removes no claim, and
\* verify_claim(I, T) answers true until a RemoveClaim has removed every claim
\* of I with topic T.
C25_ClaimOutlivesSignerKey ==
    []KeyChangesKeepClaims /\ [][VerifiedUntilRemoved]_vars

\* a claim is stored and verified although no ClaimSignerKey is left on its
\* issuer's identity
C25_Witness ==
    \E identity \in Addrs :
        /\ Len(Claims(identity)) >= 1
        /\ LET claim == Claims(identity)[1] IN
           /\ SignerKeys(claim.issuer) = {}
           /\ Keys(claim.issuer) # <<>>
           /\ verify_claim(IDENTITY, identity, claim.topic)
                 = [res |-> "Ok", value |-> TRUE]

(* ---------------------------------- C26 --------------------------------- *)

\* the claim with its signature field emptied
Unsigned(claim) == [claim EXCEPT !.signature = <<>>]

NoManagementKey(identity) ==
    /\ Exists(identity)
    /\ \A i \in 1..Len(Keys(identity)) : Keys(identity)[i].key_type # "ManagementKey"

\* on an identity without a ManagementKey entry every call of every caller
\* returns Unauthorized and hands back the store
AllCallsRefused ==
    \A identity \in Addrs :
        NoManagementKey(identity) =>
            \A caller \in Addrs :
                /\ \A key_owner \in Addrs, key_type \in KeyType :
                      /\ execute_add_key(IDENTITY, caller, key_owner, key_type)
                           = [res |-> "Unauthorized", st |-> IDENTITY]
                      /\ execute_remove_key(IDENTITY, caller, key_owner, key_type)
                           = [res |-> "Unauthorized", st |-> IDENTITY]
                /\ \A claim \in ClaimInputs :
                      \A issuer_signature \in SignatureInputs(claim) :
                          add_claim(IDENTITY, caller, claim, issuer_signature)
                            = [res |-> "Unauthorized", st |-> IDENTITY, claim_id |-> None]
                /\ \A claim_id \in ClaimIdInputs :
                      remove_claim(IDENTITY, caller, claim_id)
                        = [res |-> "Unauthorized", st |-> IDENTITY]

\* an identity without a ManagementKey entry is the same after every step
FrozenOnceUnmanaged ==
    \A identity \in Addrs :
        NoManagementKey(identity) => IDENTITY'[identity] = IDENTITY[identity]

\* C27: once an identity's key set holds no ManagementKey entry, every later
\* AddKey, RevokeKey, AddClaim and RemoveClaim on it returns Unauthorized, and
\* its keys and claims never change again.
C27_FrozenWithoutManagementKey ==
    []AllCallsRefused /\ [][FrozenOnceUnmanaged]_vars

\* the last ManagementKey was revoked while a ClaimSignerKey and a claim are
\* left: the owner's correctly signed AddClaim and its RemoveClaim are refused
C27_Witness ==
    \E claim \in ClaimInputs :
        /\ NoManagementKey(OWNER)
        /\ Holds(OWNER, OWNER, "ClaimSignerKey")
        /\ Len(Claims(OWNER)) >= 1
        /\ claim.issuer = OWNER
        /\ ~StoredWithContent(OWNER, claim)
        /\ add_claim(IDENTITY, OWNER, claim,
                     Sign(OWNER, Sha256(to_vec(claim)))).res = "Unauthorized"
        /\ remove_claim(IDENTITY, OWNER, Claims(OWNER)[1].id[1]).res = "Unauthorized"

(* ---------------------------------- C28 --------------------------------- *)

\* C28: add_claim returns ClaimAlreadyExists only when a claim stored on the
\* identity has the same (topic, issuer, signature, data, uri); a verified
\* claim that differs from every stored claim in one of the five fields is
\* accepted.
C28_DuplicateOnlyForSameContent ==
    \A sender \in Addrs, claim \in ClaimInputs :
        \A issuer_signature \in SignatureInputs(claim) :
            LET r == add_claim(IDENTITY, sender, claim, issuer_signature) IN
            /\ r.res = "ClaimAlreadyExists" => StoredWithContent(sender, claim)
            /\ ( /\ ManagementKeyHolder(sender)
                 /\ verify_claim_signature(IDENTITY, claim, issuer_signature) = "Ok"
                 /\ ~StoredWithContent(sender, claim) )
               => r.res = "Ok"

(* ---------------------------------- C29 --------------------------------- *)

\* C29: AddClaim and RemoveClaim, accepted or refused, leave every key set as
\* it was; AddKey and RevokeKey, accepted or refused, leave every claim list
\* as it was; an accepted AddKey makes the key list the previous list with the
\* new key appended, and an accepted AddClaim makes the claim list the
\* previous list with one claim appended.
C29_KeysAndClaimsApart ==
    \A sender \in Addrs, identity \in Addrs :
        /\ \A claim \in ClaimInputs :
               \A issuer_signature \in SignatureInputs(claim) :
                   LET r == add_claim(IDENTITY, sender, claim, issuer_signature) IN
                   /\ r.st[identity].keys = Keys(identity)
                   /\ r.res = "Ok" =>
                         /\ Len(r.st[sender].claims) = Len(Claims(sender)) + 1
                         /\ SubSeq(r.st[sender].claims, 1, Len(Claims(sender)))
                               = Claims(sender)
                         /\ SameContent(r.st[sender].claims[Len(Claims(sender)) + 1],
                                        claim)
        /\ \A claim_id \in ClaimIdInputs :
               remove_claim(IDENTITY, sender, claim_id).st[identity].keys = Keys(identity)
        /\ \A key_owner \in Addrs, key_type \in KeyType :
               LET added   == execute_add_key(IDENTITY, sender, key_owner, key_type)
                   revoked == execute_remove_key(IDENTITY, sender, key_owner, key_type)
               IN  /\ added.st[identity].claims = Claims(identity)
                   /\ revoked.st[identity].claims = Claims(identity)
                   /\ added.res = "Ok" =>
                         added.st[sender].keys
                           = Keys(sender) \o <<[owner |-> key_owner, key_type |-> key_type]>>

\* keys and a claim are stored: a further claim and a further key are
\* accepted, a duplicate claim and a duplicate key are refused
C29_Witness ==
    \E claim \in ClaimInputs, again \in ClaimInputs, signer \in Addrs :
        /\ Len(Keys(OWNER)) >= 2
        /\ Len(Claims(OWNER)) = 1
        /\ add_claim(IDENTITY, OWNER, claim,
                     Sign(signer, Sha256(to_vec(claim)))).res = "Ok"
        /\ add_claim(IDENTITY, OWNER, again,
                     Sign(signer, Sha256(to_vec(again)))).res = "ClaimAlreadyExists"
        /\ execute_add_key(IDENTITY, OWNER, OWNER, "ExecutionKey").res = "Ok"
        /\ execute_add_key(IDENTITY, OWNER, OWNER, "ManagementKey").res
              = "KeyAlreadyExists"

====
